---- MODULE Spec2Model ----
(***************************************************************************)
(* Model of the BadgerDB buffer manager (buffer.cpp) and of the join       *)
(* operators that run on top of it (executor.cpp).                         *)
(*                                                                         *)
(* The buffer manager is modelled as pure operators over a pool record     *)
(* (descriptor table, frame contents, page index, clock hand, files), one  *)
(* operator per method of BufMgr.  The actions of Spec apply one method to *)
(* the pool per step; the actions of SpecJoin run the join operators,      *)
(* which call the same operators.                                          *)
(***************************************************************************)
EXTENDS Integers, Sequences, FiniteSets, TLC

\* ------------------------------------------------------------------ bounds
MaxBufs == 2        \* pool capacities 1..MaxBufs are explored
MaxPage == 2        \* file A holds page ids 1..MaxPage
MaxPageB == 1       \* file B holds page ids 1..MaxPageB
MaxPin == 2         \* callers hold at most MaxPin pins on one page
MaxByte == 1        \* page contents are 0..MaxByte
MaxClockPage == 3   \* SpecClock: file A holds page ids 1..MaxClockPage

Files == {"A", "B"}
\* The page ids a file has on disk when the pool is constructed.
DiskPages(file) == IF file = "A" THEN 1..MaxPage ELSE 1..MaxPageB
Bytes == 0..MaxByte
NoFile == "NULL"            \* File* NULL of a cleared descriptor
INVALID_NUMBER == 0         \* Page::INVALID_NUMBER
NoPage == [live |-> FALSE, data |-> 0]   \* the file holds no page under this id

VARIABLES
  numBufs,        \* BufMgr::numBufs
  bufDescTable,   \* BufMgr::bufDescTable : frame -> BufDesc
  bufPool,        \* BufMgr::bufPool      : frame -> Page (number, data)
  hashTable,      \* BufMgr::hashTable    : set of (file, pageNo, frameNo)
  clockHand,      \* BufMgr::clockHand
  files,          \* the files on disk: file -> page id -> [live, data]
  alive,          \* FALSE once the pool has been destructed
  lastOp,         \* the last call made on the pool and how it ended
  dur,            \* the followed page: progress of unpin-dirty / flush / re-fetch
  join            \* state of the join operators (SpecJoin)

vars == <<numBufs, bufDescTable, bufPool, hashTable, clockHand, files, alive,
          lastOp, dur, join>>

Frames == 0..(numBufs - 1)
\* The page ids callers use for a file: the ids the file was created with.
PagesOf(file) == DOMAIN files[file]

\* ------------------------------------------------------- BufDesc (buffer.h)
\* BufDesc::Clear(): every field but frameNo is reset.
Clear(d) ==
  [frameNo |-> d.frameNo, file |-> NoFile, pageNo |-> INVALID_NUMBER,
   pinCnt |-> 0, dirty |-> FALSE, refbit |-> FALSE, valid |-> FALSE]

\* BufDesc::Set(file, pageNo): a freshly installed, pinned page.
Set(d, file, pageNo) ==
  [frameNo |-> d.frameNo, file |-> file, pageNo |-> pageNo,
   pinCnt |-> 1, dirty |-> FALSE, refbit |-> TRUE, valid |-> TRUE]

\* ---------------------------------------------------- BufHashTbl (index)
HTlookup(ht, file, pageNo) == {e \in ht : e.file = file /\ e.pageNo = pageNo}
HThas(ht, file, pageNo) == HTlookup(ht, file, pageNo) # {}
HTframe(ht, file, pageNo) == (CHOOSE e \in HTlookup(ht, file, pageNo) : TRUE).frameNo
HTinsert(ht, file, pageNo, frame) ==
  (ht \ HTlookup(ht, file, pageNo))
     \cup {[file |-> file, pageNo |-> pageNo, frameNo |-> frame]}
HTremove(ht, file, pageNo) == ht \ HTlookup(ht, file, pageNo)

\* ------------------------------------------------------------------ File
FileHas(fs, file, pageNo) == pageNo \in DOMAIN fs[file] /\ fs[file][pageNo].live
\* File::writePage(page): the page is stored under its own page number.
writePage(fs, file, page) == [fs EXCEPT ![file][page.num].data = page.data]
\* File::readPage(pageNo)
FileReadPage(fs, file, pageNo) == [num |-> pageNo, data |-> fs[file][pageNo].data]
\* File::deletePage(pageNo)
deletePage(fs, file, pageNo) == [fs EXCEPT ![file][pageNo] = NoPage]
\* File::allocatePage(): a new, empty page under the id the file picks.
FileAllocatePage(fs, file, pageNo) == [fs EXCEPT ![file][pageNo] = [live |-> TRUE, data |-> 0]]
EmptyPage == [num |-> INVALID_NUMBER, data |-> 0]

\* ------------------------------------------------------------- the pool
\* The pool as one value; exc is the exception the call ends with, frame the
\* frame the call selected (or hit), evicted whether a valid page was replaced,
\* advances the number of advanceClock calls the call made.
PoolState ==
  [bufDescTable |-> bufDescTable, bufPool |-> bufPool, hashTable |-> hashTable,
   clockHand |-> clockHand, files |-> files,
   exc |-> "none", frame |-> -1, hit |-> FALSE, evicted |-> FALSE, advances |-> 0]

\* BufMgr::advanceClock
advanceClock(hand) == (hand + 1) % numBufs

\* allocBufCase without the pinCnt test.
allocBufCase_noPinCheck(d) ==
  IF d.valid = FALSE THEN "invalid"
  ELSE IF d.refbit = TRUE THEN "referenced"
  ELSE "victim"

\* allocBufCase without the reference-bit test (no second chance).
allocBufCase_noSecondChance(d) ==
  IF d.valid = FALSE THEN "invalid"
  ELSE IF d.pinCnt > 0 THEN "pinned"
  ELSE "victim"

\* The branch allocBuf takes for the descriptor under the clock hand.
allocBufCase(d) ==
  IF d.valid = FALSE THEN "invalid"
  ELSE IF d.refbit = TRUE THEN "referenced"
  ELSE IF d.pinCnt > 0 THEN "pinned"
  ELSE "victim"

\* evictVictim without the removal of the victim's index entry.
evictVictim_keepIndex(s, hand) ==
  LET d == s.bufDescTable[hand] IN
  [s EXCEPT !.files = IF d.dirty = TRUE
                        THEN writePage(s.files, d.file, s.bufPool[hand])
                        ELSE s.files,
            !.bufDescTable[hand] = Clear(d),
            !.frame = hand,
            !.evicted = TRUE]

\* evictVictim without the write-back of a dirty victim.
evictVictim_noWriteBack(s, hand) ==
  LET d == s.bufDescTable[hand] IN
  [s EXCEPT !.hashTable = HTremove(s.hashTable, d.file, d.pageNo),
            !.bufDescTable[hand] = Clear(d),
            !.frame = hand,
            !.evicted = TRUE]

\* allocBuf's last branch: write a dirty victim back, drop its index entry,
\* clear its descriptor, select it.
evictVictim(s, hand) ==
  LET d == s.bufDescTable[hand] IN
  [s EXCEPT !.files = IF d.dirty = TRUE
                        THEN writePage(s.files, d.file, s.bufPool[hand])
                        ELSE s.files,
            !.hashTable = HTremove(s.hashTable, d.file, d.pageNo),
            !.bufDescTable[hand] = Clear(d),
            !.frame = hand,
            !.evicted = TRUE]

\* allocBufLoop that throws one pinned encounter later.
RECURSIVE allocBufLoop_lateThrow(_, _)
allocBufLoop_lateThrow(s, pinned) ==
  LET hand == advanceClock(s.clockHand)
      s1 == [s EXCEPT !.clockHand = hand, !.advances = @ + 1]
      d == s.bufDescTable[hand]
      c == allocBufCase(d)
  IN IF pinned = numBufs + 1 THEN [s1 EXCEPT !.exc = "BufferExceeded"]
     ELSE IF c = "invalid"
       THEN [s1 EXCEPT !.bufDescTable[hand] = Clear(d), !.frame = hand]
     ELSE IF c = "referenced"
       THEN allocBufLoop_lateThrow([s1 EXCEPT !.bufDescTable[hand].refbit = FALSE], pinned)
     ELSE IF c = "pinned"
       THEN allocBufLoop_lateThrow(s1, pinned + 1)
     ELSE evictVictim(s1, hand)

\* BufMgr::allocBuf: the clock sweep.  pinned counts the pinned, unreferenced
\* frames met so far and is never reset during the sweep.
RECURSIVE allocBufLoop(_, _)
allocBufLoop(s, pinned) ==
  LET hand == advanceClock(s.clockHand)
      s1 == [s EXCEPT !.clockHand = hand, !.advances = @ + 1]
      d == s.bufDescTable[hand]
      c == allocBufCase(d)
  IN IF pinned = numBufs THEN [s1 EXCEPT !.exc = "BufferExceeded"]
     ELSE IF c = "invalid"
       THEN [s1 EXCEPT !.bufDescTable[hand] = Clear(d), !.frame = hand]
     ELSE IF c = "referenced"
       THEN allocBufLoop([s1 EXCEPT !.bufDescTable[hand].refbit = FALSE], pinned)
     ELSE IF c = "pinned"
       THEN allocBufLoop(s1, pinned + 1)
     ELSE evictVictim(s1, hand)

allocBuf(s) == allocBufLoop(s, 0)

\* readPage with a handler that swallows the exception of allocBuf.
readPage_swallow(s, file, pageNo) ==
  IF HThas(s.hashTable, file, pageNo)
  THEN LET frame == HTframe(s.hashTable, file, pageNo) IN
       [s EXCEPT !.bufDescTable[frame].refbit = TRUE,
                 !.bufDescTable[frame].pinCnt = @ + 1,
                 !.frame = frame, !.hit = TRUE]
  ELSE LET a == allocBuf(s) IN
       IF a.exc # "none" THEN [a EXCEPT !.exc = "none"]
       ELSE IF ~FileHas(a.files, file, pageNo) THEN [a EXCEPT !.exc = "InvalidPage"]
       ELSE [a EXCEPT !.bufPool[a.frame] = FileReadPage(a.files, file, pageNo),
                      !.hashTable = HTinsert(a.hashTable, file, pageNo, a.frame),
                      !.bufDescTable[a.frame] = Set(@, file, pageNo)]

\* BufMgr::readPage
readPage(s, file, pageNo) ==
  IF HThas(s.hashTable, file, pageNo)
  THEN LET frame == HTframe(s.hashTable, file, pageNo) IN
       [s EXCEPT !.bufDescTable[frame].refbit = TRUE,
                 !.bufDescTable[frame].pinCnt = @ + 1,
                 !.frame = frame, !.hit = TRUE]
  ELSE LET a == allocBuf(s) IN
       IF a.exc # "none" THEN a
       ELSE IF ~FileHas(a.files, file, pageNo) THEN [a EXCEPT !.exc = "InvalidPage"]
       ELSE [a EXCEPT !.bufPool[a.frame] = FileReadPage(a.files, file, pageNo),
                      !.hashTable = HTinsert(a.hashTable, file, pageNo, a.frame),
                      !.bufDescTable[a.frame] = Set(@, file, pageNo)]

\* unPinPage that forgets to record the dirty flag.
unPinPage_dropDirty(s, file, pageNo, dirty) ==
  IF HThas(s.hashTable, file, pageNo)
  THEN LET frame == HTframe(s.hashTable, file, pageNo) IN
       IF s.bufDescTable[frame].pinCnt > 0
       THEN [s EXCEPT !.bufDescTable[frame].pinCnt = @ - 1,
                      !.frame = frame, !.hit = TRUE]
       ELSE [s EXCEPT !.exc = "PageNotPinned", !.frame = frame, !.hit = TRUE]
  ELSE s

\* unPinPage that decrements without the pinCnt > 0 test.
unPinPage_noPinTest(s, file, pageNo, dirty) ==
  IF HThas(s.hashTable, file, pageNo)
  THEN LET frame == HTframe(s.hashTable, file, pageNo) IN
       [s EXCEPT !.bufDescTable[frame].pinCnt = @ - 1,
                 !.bufDescTable[frame].dirty = IF dirty = TRUE THEN dirty ELSE @,
                 !.frame = frame, !.hit = TRUE]
  ELSE s

\* unPinPage without the handler for the index miss.
unPinPage_throwOnMiss(s, file, pageNo, dirty) ==
  IF HThas(s.hashTable, file, pageNo)
  THEN LET frame == HTframe(s.hashTable, file, pageNo) IN
       IF s.bufDescTable[frame].pinCnt > 0
       THEN [s EXCEPT !.bufDescTable[frame].pinCnt = @ - 1,
                      !.bufDescTable[frame].dirty = IF dirty = TRUE THEN dirty ELSE @,
                      !.frame = frame, !.hit = TRUE]
       ELSE [s EXCEPT !.exc = "PageNotPinned", !.frame = frame, !.hit = TRUE]
  ELSE [s EXCEPT !.exc = "HashNotFound"]

\* BufMgr::unPinPage
unPinPage(s, file, pageNo, dirty) ==
  IF HThas(s.hashTable, file, pageNo)
  THEN LET frame == HTframe(s.hashTable, file, pageNo) IN
       IF s.bufDescTable[frame].pinCnt > 0
       THEN [s EXCEPT !.bufDescTable[frame].pinCnt = @ - 1,
                      !.bufDescTable[frame].dirty = IF dirty = TRUE THEN dirty ELSE @,
                      !.frame = frame, !.hit = TRUE]
       ELSE [s EXCEPT !.exc = "PageNotPinned", !.frame = frame, !.hit = TRUE]
  ELSE s

\* flushFrame without the write-back of a dirty frame.
flushFrame_noWriteBack(s, file, i) ==
  LET d == s.bufDescTable[i] IN
  [s EXCEPT !.hashTable = HTremove(s.hashTable, file, s.bufPool[i].num),
            !.bufDescTable[i] = Clear(d)]

\* BufMgr::flushFile, the body of the loop for a frame that passed the checks.
flushFrame(s, file, i) ==
  LET d == s.bufDescTable[i] IN
  [s EXCEPT !.files = IF d.dirty = TRUE
                        THEN writePage(s.files, d.file, s.bufPool[i])
                        ELSE s.files,
            !.hashTable = HTremove(s.hashTable, file, s.bufPool[i].num),
            !.bufDescTable[i] = Clear(d)]

RECURSIVE flushFileLoop(_, _, _)
flushFileLoop(s, file, i) ==
  IF i >= numBufs THEN s
  ELSE LET d == s.bufDescTable[i] IN
       IF d.file = file
       THEN IF d.pinCnt # 0 THEN [s EXCEPT !.exc = "PagePinned", !.frame = i]
            ELSE IF d.valid = FALSE THEN [s EXCEPT !.exc = "BadBuffer", !.frame = i]
            ELSE flushFileLoop(flushFrame(s, file, i), file, i + 1)
       ELSE flushFileLoop(s, file, i + 1)

\* BufMgr::flushFile
flushFile(s, file) == flushFileLoop(s, file, 0)

\* BufMgr::allocPage; pageNo is the id File::allocatePage gives the new page.
allocPage(s, file, pageNo) ==
  LET s0 == [s EXCEPT !.files = FileAllocatePage(s.files, file, pageNo)]
      a == allocBuf(s0)
  IN IF a.exc # "none" THEN a
     ELSE [a EXCEPT !.hashTable = HTinsert(a.hashTable, file, pageNo, a.frame),
                    !.bufDescTable[a.frame] = Set(@, file, pageNo),
                    !.bufPool[a.frame] = [num |-> pageNo, data |-> 0]]

\* disposePage that refuses to drop a pinned page.
disposePage_refusePinned(s, file, pageNo) ==
  IF HThas(s.hashTable, file, pageNo)
  THEN LET frame == HTframe(s.hashTable, file, pageNo) IN
       IF s.bufDescTable[frame].pinCnt > 0
       THEN [s EXCEPT !.exc = "PagePinned", !.frame = frame, !.hit = TRUE]
       ELSE [s EXCEPT !.bufDescTable[frame] = Clear(@),
                      !.files = deletePage(s.files, file, pageNo),
                      !.hashTable = HTremove(s.hashTable, file, pageNo),
                      !.frame = frame, !.hit = TRUE]
  ELSE IF FileHas(s.files, file, pageNo)
       THEN [s EXCEPT !.files = deletePage(s.files, file, pageNo)]
       ELSE [s EXCEPT !.exc = "InvalidPage"]

\* BufMgr::disposePage
disposePage(s, file, pageNo) ==
  IF HThas(s.hashTable, file, pageNo)
  THEN LET frame == HTframe(s.hashTable, file, pageNo) IN
       [s EXCEPT !.bufDescTable[frame] = Clear(@),
                 !.files = deletePage(s.files, file, pageNo),
                 !.hashTable = HTremove(s.hashTable, file, pageNo),
                 !.frame = frame, !.hit = TRUE]
  ELSE IF FileHas(s.files, file, pageNo)
       THEN [s EXCEPT !.files = deletePage(s.files, file, pageNo)]
       ELSE [s EXCEPT !.exc = "InvalidPage"]

\* BufMgr::~BufMgr: every dirty frame makes the destructor flush its file; an
\* exception leaving flushFile ends the destructor (and the program).
RECURSIVE destructLoop(_, _)
destructLoop(s, i) ==
  IF i >= numBufs THEN s
  ELSE IF s.bufDescTable[i].dirty = TRUE
       THEN LET f == flushFile(s, s.bufDescTable[i].file) IN
            IF f.exc # "none" THEN f ELSE destructLoop(f, i + 1)
       ELSE destructLoop(s, i + 1)

destructBufMgr(s) == destructLoop(s, 0)

\* ---------------------------------------------------------------- Init
\* BufMgr::BufMgr(bufs): all frames invalid, the hand on the last frame.
InitPool ==
  /\ numBufs \in 1..MaxBufs
  /\ bufDescTable = [i \in Frames |-> Clear([frameNo |-> i])]
  /\ bufPool = [i \in Frames |-> EmptyPage]
  /\ hashTable = {}
  /\ clockHand = numBufs - 1
  /\ alive = TRUE

NoOp == [op |-> "none", file |-> NoFile, exc |-> "none", hit |-> FALSE, evicted |-> FALSE,
         advances |-> 0]

NoJoin == [pc |-> "off"]
NoDur == [file |-> NoFile, pageNo |-> INVALID_NUMBER, st |-> "off", b |-> 0,
          reported |-> FALSE, rb |-> 0]

\* The files as they are on disk when the pool is constructed: every page id
\* of a file holds a page of zeroes.
InitFiles == files = [f \in Files |-> [p \in DiskPages(f) |-> [live |-> TRUE, data |-> 0]]]

Init ==
  /\ InitPool
  /\ InitFiles
  /\ lastOp = NoOp
  /\ dur = NoDur
  /\ join = NoJoin

\* ------------------------------------------------------------- actions
Install(s) ==
  /\ bufDescTable' = s.bufDescTable
  /\ bufPool' = s.bufPool
  /\ hashTable' = s.hashTable
  /\ clockHand' = s.clockHand
  /\ files' = s.files

Called(op, file, s) ==
  lastOp' = [op |-> op, file |-> file, exc |-> s.exc, hit |-> s.hit,
             evicted |-> s.evicted, advances |-> s.advances]

Resident(file, pageNo) == HThas(hashTable, file, pageNo)
FrameOf(file, pageNo) == HTframe(hashTable, file, pageNo)

\* dur follows one page (dur.file, dur.pageNo) through the scenario
\*   unpinPage(dirty) leaving pinCnt = 0  ("armed", b = the bytes of the frame),
\*   flushFile(file) without error        ("flushed"),
\*   readPage of the page                 ("refetched");
\* any other call of the caller on that page ends the scenario ("idle").
\* Beside the scenario, dur.reported tells that the page was unpinned dirty and
\* neither written, disposed nor allocated anew since; dur.rb are the bytes the
\* frame held at the last such unpin.
Tracked(file, pageNo) == dur.file = file /\ dur.pageNo = pageNo
DurIdle == [dur EXCEPT !.st = "idle", !.b = 0]
Unreported(d) == [d EXCEPT !.reported = FALSE, !.rb = 0]

ReadPage(file, pageNo) ==
  /\ alive
  /\ Resident(file, pageNo) => bufDescTable[FrameOf(file, pageNo)].pinCnt < MaxPin
  /\ LET s == readPage(PoolState, file, pageNo) IN
     /\ Install(s)
     /\ Called("readPage", file, s)
     /\ dur' = IF Tracked(file, pageNo)
               THEN IF s.exc = "none" /\ dur.st = "flushed"
                    THEN [dur EXCEPT !.st = "refetched"]
                    ELSE DurIdle
               ELSE dur
  /\ UNCHANGED <<numBufs, alive, join>>

\* The caller writes into a page it holds pinned, through the Page* it got.
\* Callers write into one page only, the page dur follows; every other page
\* keeps the zeroes it starts with.
WritePage(file, pageNo, b) ==
  /\ alive
  /\ Tracked(file, pageNo)
  /\ Resident(file, pageNo)
  /\ bufDescTable[FrameOf(file, pageNo)].pinCnt > 0
  /\ bufPool' = [bufPool EXCEPT ![FrameOf(file, pageNo)].data = b]
  /\ lastOp' = [NoOp EXCEPT !.op = "write", !.file = file, !.hit = TRUE]
  /\ dur' = Unreported(DurIdle)
  /\ UNCHANGED <<numBufs, bufDescTable, hashTable, clockHand, files, alive, join>>

UnPinPage(file, pageNo, dirty) ==
  /\ alive
  /\ LET s == unPinPage(PoolState, file, pageNo, dirty) IN
     /\ Install(s)
     /\ Called("unPinPage", file, s)
     /\ dur' = IF Tracked(file, pageNo) /\ s.hit
               THEN LET d == IF s.exc = "none" /\ dirty /\ s.bufDescTable[s.frame].pinCnt = 0
                             THEN [dur EXCEPT !.st = "armed", !.b = s.bufPool[s.frame].data]
                             ELSE DurIdle
                    IN IF s.exc = "none" /\ dirty
                       THEN [d EXCEPT !.reported = TRUE, !.rb = s.bufPool[s.frame].data]
                       ELSE d
               ELSE dur
  /\ UNCHANGED <<numBufs, alive, join>>

FlushFile(file) ==
  /\ alive
  /\ LET s == flushFile(PoolState, file) IN
     /\ Install(s)
     /\ Called("flushFile", file, s)
     /\ dur' = IF dur.file = file /\ dur.st = "armed" /\ s.exc = "none"
               THEN [dur EXCEPT !.st = "flushed"]
               ELSE dur
  /\ UNCHANGED <<numBufs, alive, join>>

AllocPage(file) ==
  /\ alive
  /\ \E pageNo \in PagesOf(file) :
       /\ ~FileHas(files, file, pageNo)
       /\ LET s == allocPage(PoolState, file, pageNo) IN
          /\ Install(s)
          /\ Called("allocPage", file, s)
          /\ dur' = IF Tracked(file, pageNo) THEN Unreported(DurIdle) ELSE dur
  /\ UNCHANGED <<numBufs, alive, join>>

DisposePage(file, pageNo) ==
  /\ alive
  /\ LET s == disposePage(PoolState, file, pageNo) IN
     /\ Install(s)
     /\ Called("disposePage", file, s)
     /\ dur' = IF Tracked(file, pageNo) THEN Unreported(DurIdle) ELSE dur
  /\ UNCHANGED <<numBufs, alive, join>>

Destruct ==
  /\ alive
  /\ LET s == destructBufMgr(PoolState) IN
     /\ Install(s)
     /\ Called("destruct", NoFile, s)
  /\ alive' = FALSE
  /\ UNCHANGED <<numBufs, dur, join>>

Next ==
  \/ \E file \in Files : \E pageNo \in PagesOf(file) : ReadPage(file, pageNo)
  \/ \E file \in Files : \E pageNo \in PagesOf(file) : \E dirty \in BOOLEAN :
        UnPinPage(file, pageNo, dirty)
  \/ \E file \in Files : FlushFile(file)
  \/ \E file \in Files : AllocPage(file)
  \/ \E file \in Files : \E pageNo \in PagesOf(file) : DisposePage(file, pageNo)
  \/ Destruct

Spec == Init /\ [][Next]_vars

\* The pool over one file of MaxClockPage pages (file B is empty).
InitClock ==
  /\ InitPool
  /\ files = [f \in Files |->
                [p \in (IF f = "A" THEN 1..MaxClockPage ELSE {}) |->
                   [live |-> TRUE, data |-> 0]]]
  /\ lastOp = NoOp
  /\ dur = NoDur
  /\ join = NoJoin

SpecClock == InitClock /\ [][Next]_vars

\* The pool with one page followed through the write-durability scenario:
\* page 1 of file A, which shares its file with another page and the pool
\* with the pages of file B (the code compares files and page ids for
\* equality only, so any other page behaves as this one).
InitDurable ==
  /\ InitPool
  /\ InitFiles
  /\ lastOp = NoOp
  /\ dur = [file |-> "A", pageNo |-> 1, st |-> "idle", b |-> 0,
            reported |-> FALSE, rb |-> 0]
  /\ join = NoJoin

NextDurable ==
  \/ Next
  \/ \E file \in Files : \E pageNo \in PagesOf(file) : \E b \in Bytes :
        WritePage(file, pageNo, b)

SpecDurable == InitDurable /\ [][NextDurable]_vars

TypeOK ==
  /\ numBufs \in 1..MaxBufs
  /\ clockHand \in Frames
  /\ \A i \in Frames : bufDescTable[i].pinCnt \in 0..MaxPin

\* ============================================================ tuple codec
\* A tuple is a sequence of bytes (0..255); a schema a sequence of attributes
\* [name, type, size].  String positions are 0-based as in the code.
At(str, pos) == IF pos < Len(str) THEN str[pos + 1] ELSE 0
\* std::string::erase(pos, n)
Erase(str, pos, n) ==
  SubSeq(str, 1, pos) \o
    (IF pos + n >= Len(str) THEN << >> ELSE SubSeq(str, pos + n + 1, Len(str)))
\* std::string(str, pos, n) restricted to the bytes read one by one
Bytes_(str, pos, n) == [k \in 1..n |-> At(str, pos + k - 1)]
\* TableSchema::getAttrNum(name): the 0-based position of the attribute
getAttrNum(schema, name) ==
  (CHOOSE j \in 1..Len(schema) : schema[j].name = name) - 1
\* "ss << tup[index]; ss >> size": the one character parsed as a decimal int
\* (0 when it is no digit)
ParseLen(byte) == IF byte \in 48..57 THEN byte - 48 ELSE 0

\* last.erase(index - already_delete, n) and the bookkeeping after it;
\* erase throws std::out_of_range for a position outside the string.
eraseSpan(h, index, n) ==
  LET pos == index - h.already_delete IN
  IF pos < 0 \/ pos > Len(h.last)
  THEN [h EXCEPT !.err = "out_of_range"]
  ELSE [h EXCEPT !.last = Erase(@, pos, n), !.already_delete = @ + n]

\* handle_tuple, the inner loop "for j <= rank" for one common attribute.
RECURSIVE attrLoop(_, _, _, _, _, _)
attrLoop(h, schema, tup, rank, j, index) ==
  IF j > rank \/ h.err # "none" THEN [h |-> h, index |-> index]
  ELSE LET a == schema[j + 1] IN
    IF a.type = "INT"
    THEN attrLoop(IF j = rank
                  THEN eraseSpan([h EXCEPT !.hashString = @ \o Bytes_(tup, index, 4)],
                                 index, 4)
                  ELSE h,
                  schema, tup, rank, j + 1, index + 4)
    ELSE IF a.type = "CHAR"
    THEN attrLoop(IF j = rank
                  THEN eraseSpan([h EXCEPT !.hashString = @ \o Bytes_(tup, index, a.size)],
                                 index, a.size)
                  ELSE h,
                  schema, tup, rank, j + 1, index + a.size)
    ELSE LET size == ParseLen(At(tup, index)) IN
         attrLoop(IF j = rank
                  THEN eraseSpan([h EXCEPT !.hashString = @ \o Bytes_(tup, index + 1, size)],
                                 index, size + 1)
                  ELSE h,
                  schema, tup, rank, j + 1, index + size + 1)

\* handle_tuple, the outer loop over the common attribute names.
RECURSIVE handleLoop(_, _, _, _, _)
handleLoop(h, sameName, tup, schema, i) ==
  IF i > Len(sameName) \/ h.err # "none" THEN h
  ELSE LET r == attrLoop(h, schema, tup, getAttrNum(schema, sameName[i]), 0, 0)
           pad == 4 - (r.index % 4)
       IN handleLoop(IF r.h.err = "none" /\ r.index % 4 # 0
                     THEN eraseSpan(r.h, r.index, pad)
                     ELSE r.h,
                     sameName, tup, schema, i + 1)

\* handle_tuple(hashString, sameName, tup, last, tableSchema) called, as the
\* join does, with hashString and last empty.
handle_tuple(sameName, tup, schema) ==
  handleLoop([hashString |-> << >>, last |-> tup, already_delete |-> 0, err |-> "none"],
             sameName, tup, schema, 1)

\* ================================================================== join
MaxLeftPages == 2     \* the left relation has 1..MaxLeftPages pages
MaxRightPages == 2    \* the right relation has 1..MaxRightPages pages
MaxTup == 2           \* a right page holds 1..MaxTup tuples (a left page one)
MaxVal == 2           \* attribute values are 1..MaxVal
MaxBudget == 3        \* numAvailableBufPages is 1..MaxBudget
MaxCalls == 2         \* execute is called at most MaxCalls times
MaxIOs == 8           \* execute is followed while numIOs < MaxIOs

Indeterminate == -1   \* a counter the constructor leaves uninitialised

\* The schemas of the two relations: one common attribute, k.
leftTableSchema ==
  <<[name |-> "a", type |-> "INT", size |-> 4], [name |-> "k", type |-> "INT", size |-> 4]>>
rightTableSchema ==
  <<[name |-> "k", type |-> "INT", size |-> 4], [name |-> "b", type |-> "INT", size |-> 4]>>

\* An INT attribute as the four bytes the tables store (values below 128).
EncInt(v) == <<0, 0, 0, v>>
Vals == 1..MaxVal
LeftTuples == {EncInt(1) \o EncInt(k) : k \in Vals}
RightTuples == {EncInt(k) \o EncInt(b) : k \in Vals, b \in Vals}
SeqsUpTo(S, n) == UNION {[1..m -> S] : m \in 1..n}

\* execute, lines 311-318: the names of the right attributes that occur among
\* the names of the left attributes, in right-schema order.
RECURSIVE sameNameOf(_, _, _)
sameNameOf(left, right, i) ==
  IF i > Len(right) THEN << >>
  ELSE (IF \E j \in 1..Len(left) : left[j].name = right[i].name
        THEN <<right[i].name>> ELSE << >>) \o sameNameOf(left, right, i + 1)

\* JoinOperator::JoinOperator: isComplete(false); the counters are not set.
NewOperator ==
  [isComplete |-> FALSE, ret |-> "none",
   numResultTuples |-> Indeterminate, numUsedBufPages |-> Indeterminate,
   numIOs |-> Indeterminate]

\* OnePassJoinOperator::execute
OnePassExecute(o) ==
  IF o.isComplete THEN [o EXCEPT !.ret = "true"]
  ELSE [o EXCEPT !.numResultTuples = 0, !.numUsedBufPages = 0, !.numIOs = 0,
                 !.isComplete = TRUE, !.ret = "true"]

\* GraceHashJoinOperator::execute
GraceExecute(o) ==
  IF o.isComplete THEN [o EXCEPT !.ret = "true"]
  ELSE [o EXCEPT !.numResultTuples = 0, !.numUsedBufPages = 0, !.numIOs = 0,
                 !.isComplete = TRUE, !.ret = "true"]

\* The state of the join operators: the NestedLoopJoinOperator object, the
\* locals of its execute (while pc is inside it), the result file, and the
\* two other operator objects.
InitJoinState ==
  [pc |-> "idle", calls |-> 0, exc |-> "none", M |-> 0,
   nlj |-> NewOperator,
   usedPage |-> << >>, already_in_buf |-> << >>, hashMap |-> << >>,
   sameName |-> << >>, read_page_num |-> 0, usedPageNum |-> 0, sum |-> 0,
   iter |-> 1, result |-> << >>,
   onePass |-> NewOperator, grace |-> NewOperator]

\* nljEnter without the early return of a completed join.
nljEnter_noCompleteCheck(j, M, fs) ==
  [j EXCEPT !.calls = @ + 1, !.M = M, !.pc = "build", !.exc = "none",
            !.nlj.ret = "none",
            !.nlj.numResultTuples = 0, !.nlj.numUsedBufPages = 0, !.nlj.numIOs = 0,
            !.usedPage = << >>, !.already_in_buf = << >>, !.hashMap = << >>,
            !.sameName = sameNameOf(leftTableSchema, rightTableSchema, 1),
            !.read_page_num = 0, !.usedPageNum = 0,
            !.sum = Cardinality({p \in DOMAIN fs["R"] : fs["R"][p].live}),
            !.iter = 1]

\* execute, lines 296-332: the early return of a completed join, else the
\* reset of the counters and the set-up of the locals.
nljEnter(j, M, fs) ==
  IF j.nlj.isComplete
  THEN [j EXCEPT !.calls = @ + 1, !.nlj.ret = "true"]
  ELSE [j EXCEPT !.calls = @ + 1, !.M = M, !.pc = "build", !.exc = "none",
                 !.nlj.ret = "none",
                 !.nlj.numResultTuples = 0, !.nlj.numUsedBufPages = 0, !.nlj.numIOs = 0,
                 !.usedPage = << >>, !.already_in_buf = << >>, !.hashMap = << >>,
                 !.sameName = sameNameOf(leftTableSchema, rightTableSchema, 1),
                 !.read_page_num = 0, !.usedPageNum = 0,
                 !.sum = Cardinality({p \in DOMAIN fs["R"] : fs["R"][p].live}),
                 !.iter = 1]

InSeq(x, s) == \E i \in 1..Len(s) : s[i] = x

\* execute, lines 348-362: the tuples of one right page go into hashMap.
RECURSIVE buildTuples(_, _, _, _)
buildTuples(hm, sameName, tuples, i) ==
  IF i > Len(tuples) THEN [hashMap |-> hm, err |-> "none"]
  ELSE LET h == handle_tuple(sameName, tuples[i], rightTableSchema) IN
       IF h.err # "none" THEN [hashMap |-> hm, err |-> h.err]
       ELSE buildTuples(IF h.hashString \in DOMAIN hm
                        THEN [hm EXCEPT ![h.hashString] = Append(@, h.last)]
                        ELSE (h.hashString :> <<h.last>>) @@ hm,
                        sameName, tuples, i + 1)

\* execute, lines 389-394: one result per remainder stored under the key;
\* lefttuple.insert appends the remainder to lefttuple itself.
RECURSIVE probeMatches(_, _, _, _)
probeMatches(lefttuple, same, i, out) ==
  IF i > Len(same) THEN out
  ELSE LET resultString == lefttuple \o same[i] IN
       probeMatches(resultString, same, i + 1, Append(out, resultString))

\* execute, lines 383-396: the tuples of one left page probe hashMap;
\* HeapFileManager::insertTuple appends each result to the result file.
RECURSIVE probeTuples(_, _, _, _, _)
probeTuples(hm, sameName, tuples, i, out) ==
  IF i > Len(tuples) THEN [out |-> out, err |-> "none"]
  ELSE LET h == handle_tuple(sameName, tuples[i], leftTableSchema) IN
       IF h.err # "none" THEN [out |-> out, err |-> h.err]
       ELSE probeTuples(hm, sameName, tuples, i + 1,
                        IF h.hashString \in DOMAIN hm
                        THEN probeMatches(tuples[i], hm[h.hashString], 1, out)
                        ELSE out)

\* unpinAll that leaves the last right page of the pass pinned.
RECURSIVE unpinAll_butLast(_, _, _)
unpinAll_butLast(s, pages, i) ==
  IF i >= Len(pages) \/ s.exc # "none" THEN s
  ELSE unpinAll_butLast(unPinPage(s, "R", pages[i], FALSE), pages, i + 1)

\* execute, lines 400-402: unpin every right page of this pass.
RECURSIVE unpinAll(_, _, _)
unpinAll(s, pages, i) ==
  IF i > Len(pages) \/ s.exc # "none" THEN s
  ELSE unpinAll(unPinPage(s, "R", pages[i], FALSE), pages, i + 1)

InitJoin ==
  /\ numBufs \in 2..(MaxBufs + 1)
  /\ bufDescTable = [i \in Frames |-> Clear([frameNo |-> i])]
  /\ bufPool = [i \in Frames |-> EmptyPage]
  /\ hashTable = {}
  /\ clockHand = numBufs - 1
  /\ alive = TRUE
  /\ \E nL \in 1..MaxLeftPages, nR \in 1..MaxRightPages :
       \E L \in [1..nL -> SeqsUpTo(LeftTuples, 1)], R \in [1..nR -> SeqsUpTo(RightTuples, MaxTup)] :
          files = [f \in {"L", "R"} |->
                     [p \in DOMAIN (IF f = "L" THEN L ELSE R) |->
                        [live |-> TRUE, data |-> IF f = "L" THEN L[p] ELSE R[p]]]]
  /\ lastOp = NoOp
  /\ dur = NoDur
  /\ join = InitJoinState

Fail(s, exc) ==
  /\ Install(s)
  /\ join' = [join EXCEPT !.pc = "failed", !.exc = exc]

\* A call of NestedLoopJoinOperator::execute up to the first macro-pass.
NLJ_Execute(M) ==
  /\ join.pc = "idle"
  /\ join.calls < MaxCalls
  /\ join' = nljEnter(join, M, files)
  /\ UNCHANGED <<numBufs, bufDescTable, bufPool, hashTable, clockHand, files, alive,
                 lastOp, dur>>

\* One iteration of the build loop (lines 335-369), or its end (line 370).
NLJ_Build ==
  /\ join.pc = "build"
  /\ join.nlj.numIOs < MaxIOs
  /\ LET pagenum == join.iter IN
     IF ~FileHas(files, "R", pagenum) \/ join.read_page_num >= join.M - 1
     THEN /\ join' = [join EXCEPT !.usedPageNum = @ + join.read_page_num,
                                  !.pc = "probe", !.iter = 1]
          /\ UNCHANGED <<bufDescTable, bufPool, hashTable, clockHand, files>>
     ELSE IF InSeq(pagenum, join.usedPage)
     THEN /\ join' = [join EXCEPT !.iter = @ + 1]
          /\ UNCHANGED <<bufDescTable, bufPool, hashTable, clockHand, files>>
     ELSE LET s == readPage(PoolState, "R", pagenum) IN
          IF s.exc # "none" THEN Fail(s, s.exc)
          ELSE LET b == buildTuples(join.hashMap, join.sameName,
                                    s.bufPool[s.frame].data, 1) IN
               IF b.err # "none" THEN Fail(s, b.err)
               ELSE /\ Install(s)
                    /\ join' = [join EXCEPT !.hashMap = b.hashMap,
                                            !.usedPage = Append(@, pagenum),
                                            !.already_in_buf = Append(@, pagenum),
                                            !.nlj.numIOs = @ + 1,
                                            !.nlj.numUsedBufPages = @ + 1,
                                            !.read_page_num = @ + 1,
                                            !.iter = @ + 1]
  /\ UNCHANGED <<numBufs, alive, lastOp, dur>>

\* One iteration of the probe loop over the left pages (lines 372-399), or
\* its end.
NLJ_Probe ==
  /\ join.pc = "probe"
  /\ join.nlj.numIOs < MaxIOs
  /\ LET leftPagenum == join.iter IN
     IF ~FileHas(files, "L", leftPagenum)
     THEN /\ join' = [join EXCEPT !.pc = "endpass"]
          /\ UNCHANGED <<bufDescTable, bufPool, hashTable, clockHand, files>>
     ELSE LET s == readPage(PoolState, "L", leftPagenum) IN
          IF s.exc # "none" THEN Fail(s, s.exc)
          ELSE LET r == probeTuples(join.hashMap, join.sameName,
                                    s.bufPool[s.frame].data, 1, << >>)
                   u == unPinPage(s, "L", leftPagenum, FALSE)
               IN IF r.err # "none" THEN Fail(s, r.err)
                  ELSE IF u.exc # "none" THEN Fail(u, u.exc)
                  ELSE /\ Install(u)
                       /\ join' = [join EXCEPT !.nlj.numUsedBufPages = @ + 1,
                                               !.nlj.numIOs = @ + 1,
                                               !.nlj.numResultTuples = @ + Len(r.out),
                                               !.result = @ \o r.out,
                                               !.iter = @ + 1]
  /\ UNCHANGED <<numBufs, alive, lastOp, dur>>

\* The end of a macro-pass (lines 400-405), then the loop test of line 333
\* and, when it fails, lines 408-409.
NLJ_EndPass ==
  /\ join.pc = "endpass"
  /\ LET u == unpinAll(PoolState, join.already_in_buf, 1)
         s == IF u.exc # "none" THEN u ELSE flushFile(u, "R")
     IN IF s.exc # "none" THEN Fail(s, s.exc)
        ELSE /\ Install(s)
             /\ join' = IF join.usedPageNum < join.sum
                        THEN [join EXCEPT !.already_in_buf = << >>,
                                          !.read_page_num = 0,
                                          !.pc = "build", !.iter = 1]
                        ELSE [join EXCEPT !.already_in_buf = << >>,
                                          !.read_page_num = 0,
                                          !.nlj.isComplete = TRUE,
                                          !.nlj.ret = "true",
                                          !.pc = "idle"]
  /\ UNCHANGED <<numBufs, alive, lastOp, dur>>

NextJoin ==
  \/ \E M \in 1..MaxBudget : NLJ_Execute(M)
  \/ NLJ_Build
  \/ NLJ_Probe
  \/ NLJ_EndPass

SpecJoin == InitJoin /\ [][NextJoin]_vars

\* ------------------------------------------------- schemas of the join
MaxAttrs == 2         \* a schema has 1..MaxAttrs attributes

AttrNames == {"a", "k", "b"}
AttrTypes == {"INT", "CHAR", "VARCHAR"}
Attributes == {[name |-> n, type |-> ty, size |-> 4] : n \in AttrNames, ty \in AttrTypes}
\* The schemas a table can have: attribute names are unique within a table.
Schemas ==
  {s \in SeqsUpTo(Attributes, MaxAttrs) :
     \A i, j \in 1..Len(s) : i # j => s[i].name # s[j].name}

\* JoinOperator::getCommonAttributes: for each right attribute, one entry per
\* left attribute of the same type and name.
RECURSIVE commonInner(_, _, _)
commonInner(left, attr, j) ==
  IF j > Len(left) THEN << >>
  ELSE (IF left[j].type = attr.type /\ left[j].name = attr.name
        THEN <<attr>> ELSE << >>) \o commonInner(left, attr, j + 1)
RECURSIVE getCommonAttributesFrom(_, _, _)
getCommonAttributesFrom(left, right, i) ==
  IF i > Len(right) THEN << >>
  ELSE commonInner(left, right[i], 1) \o getCommonAttributesFrom(left, right, i + 1)
getCommonAttributes(left, right) == getCommonAttributesFrom(left, right, 1)

\* JoinOperator::createResultTableSchema: the left attributes, then the right
\* attributes that no left attribute matches in type and name.
RECURSIVE rightOnly(_, _, _)
rightOnly(left, right, i) ==
  IF i > Len(right) THEN << >>
  ELSE (IF \E j \in 1..Len(left) :
              left[j].type = right[i].type /\ left[j].name = right[i].name
        THEN << >> ELSE <<right[i]>>) \o rightOnly(left, right, i + 1)
createResultTableSchema(left, right) == left \o rightOnly(left, right, 1)

\* A join operator over two tables of any schemas, before execute.
InitSchemas ==
  /\ InitPool
  /\ InitFiles
  /\ lastOp = NoOp
  /\ dur = NoDur
  /\ \E left \in Schemas, right \in Schemas :
        join = [pc |-> "constructed", left |-> left, right |-> right,
                resultTableSchema |-> createResultTableSchema(left, right),
                sameName |-> << >>]

\* execute, lines 306-318: the join columns execute works with.
NLJ_SameName ==
  /\ join.pc = "constructed"
  /\ join' = [join EXCEPT !.pc = "sameName",
                          !.sameName = sameNameOf(join.left, join.right, 1)]
  /\ UNCHANGED <<numBufs, bufDescTable, bufPool, hashTable, clockHand, files, alive,
                 lastOp, dur>>

NextSchemas == NLJ_SameName

SpecSchemas == InitSchemas /\ [][NextSchemas]_vars

\* A call of OnePassJoinOperator::execute.
OnePass_Execute ==
  /\ join.calls < MaxCalls
  /\ join' = [join EXCEPT !.onePass = OnePassExecute(@), !.calls = @ + 1]
  /\ UNCHANGED <<numBufs, bufDescTable, bufPool, hashTable, clockHand, files, alive,
                 lastOp, dur>>

\* A call of GraceHashJoinOperator::execute.
Grace_Execute ==
  /\ join.calls < MaxCalls
  /\ join' = [join EXCEPT !.grace = GraceExecute(@), !.calls = @ + 1]
  /\ UNCHANGED <<numBufs, bufDescTable, bufPool, hashTable, clockHand, files, alive,
                 lastOp, dur>>

NextStubs == OnePass_Execute \/ Grace_Execute

SpecStubs == InitJoin /\ [][NextStubs]_vars

\* ------------------------------------------------- handle_tuple alone
MaxTupleAttrs == 3    \* a schema handle_tuple is applied to has 1..MaxTupleAttrs attributes
MaxCharSize == 4      \* CHAR(n) has n in {2, 4}
MaxVarcharLen == 3    \* VARCHAR(n) has n = MaxVarcharLen, a value holds 0..n bytes
MaxOverrun == 9       \* bytes of memory behind a tuple that a read can reach

TupleNames == <<"a", "k", "b">>
CharSizes == {n \in 1..MaxCharSize : n % 2 = 0}
TupleAttrTypes ==
  {[type |-> "INT", size |-> 4]}
     \cup {[type |-> "CHAR", size |-> n] : n \in CharSizes}
     \cup {[type |-> "VARCHAR", size |-> MaxVarcharLen]}
\* Schemas of 1..MaxTupleAttrs attributes, named a, k, b in this order.
TupleSchemas ==
  UNION {{[j \in 1..m |-> [name |-> TupleNames[j], type |-> ty[j].type, size |-> ty[j].size]] :
             ty \in [1..m -> TupleAttrTypes]} : m \in 1..MaxTupleAttrs}

\* (4 - (n % 4)) % 4: the bytes that align n to the multiple of 4
\* (printTable, lines 60-61 and 69-70).
Align(n) == (4 - (n % 4)) % 4
Zeros(n) == [k \in 1..n |-> 0]
Fill(n, byte) == [k \in 1..n |-> byte]

\* The bytes of one attribute value in a stored tuple, as printTable decodes
\* them (lines 41-73): an INT is four bytes; a CHAR(n) is n bytes and the
\* alignment; a VARCHAR is a byte holding the length L, L bytes and the
\* alignment of L + 1.
EncodeAttr(attr, len, byte) ==
  IF attr.type = "INT" THEN <<0, 0, 0, byte>>
  ELSE IF attr.type = "CHAR" THEN Fill(attr.size, byte) \o Zeros(Align(attr.size))
  ELSE <<len>> \o Fill(len, byte) \o Zeros(Align(len + 1))

\* The content bytes of the values: for the attribute at position j either j
\* or the character of a digit, '9' at position 1, '8' at 2, '7' at 3.
ContentBytes(j) == {j, 58 - j}
\* The values an attribute at position j can hold, encoded.
AttrValues(attr, j) ==
  {EncodeAttr(attr, len, byte) :
     len \in (IF attr.type = "VARCHAR" THEN 0..attr.size ELSE {0}),
     byte \in ContentBytes(j)}

RECURSIVE Flatten(_, _)
Flatten(parts, j) == IF j > Len(parts) THEN << >> ELSE parts[j] \o Flatten(parts, j + 1)
\* The well-formed tuples of a schema.
WellFormedTuples(schema) ==
  {Flatten(parts, 1) :
     parts \in {ps \in [1..Len(schema) -> UNION {AttrValues(schema[j], j) : j \in 1..Len(schema)}] :
                   \A j \in 1..Len(schema) : ps[j] \in AttrValues(schema[j], j)}}

\* The lists of common attribute names of a schema: names of the schema,
\* each once, in any order.
NameLists(schema) ==
  {l \in UNION {[1..m -> {schema[j].name : j \in 1..Len(schema)}] : m \in 1..Len(schema)} :
     \A i, j \in 1..Len(l) : i # j => l[i] # l[j]}

\* handle_tuple reading the bytes of tup from mem: mem is tup followed by the
\* bytes that lie behind the string in memory.
handle_tuple_mem(sameName, tup, mem, schema) ==
  handleLoop([hashString |-> << >>, last |-> tup, already_delete |-> 0, err |-> "none"],
             sameName, mem, schema, 1)

\* The terminating zero of the string and what lies behind it: tup[size()] is
\* 0, a read further behind is undefined and yields any byte.
Behind(byte) == <<0>> \o Fill(MaxOverrun, byte)
OverrunBytes == {0, 57}

InitTuples ==
  /\ InitPool
  /\ InitFiles
  /\ lastOp = NoOp
  /\ dur = NoDur
  /\ \E schema \in TupleSchemas :
       \E tup \in WellFormedTuples(schema), sameName \in NameLists(schema) :
          join = [pc |-> "tuple", schema |-> schema, tup |-> tup, sameName |-> sameName,
                  hashString |-> << >>, last |-> << >>, err |-> "none"]

\* A call handle_tuple(hashString, sameName, tup, last, tableSchema) with
\* hashString and last empty.
HandleTuple ==
  /\ join.pc = "tuple"
  /\ \E byte \in OverrunBytes :
       LET h == handle_tuple_mem(join.sameName, join.tup, join.tup \o Behind(byte),
                                 join.schema)
       IN join' = [join EXCEPT !.pc = "handled", !.hashString = h.hashString,
                               !.last = h.last, !.err = h.err]
  /\ UNCHANGED <<numBufs, bufDescTable, bufPool, hashTable, clockHand, files, alive,
                 lastOp, dur>>

NextTuples == HandleTuple

SpecTuples == InitTuples /\ [][NextTuples]_vars

\* ============================================================ properties
Pinned(i) == bufDescTable[i].valid = TRUE /\ bufDescTable[i].pinCnt > 0
AllPinned == \A i \in Frames : Pinned(i)
Acquiring(op) == op \in {"readPage", "allocPage"}

\* C1: a page that is resident with pinCnt > 0 before a readPage or allocPage
\* call is, after the call, still resident in the same frame, under the same
\* (file, pageNo), with the same bytes and its index entry: allocBuf never
\* takes a pinned frame as victim.
C1_NoEvictionOfPinned ==
  [][Acquiring(lastOp'.op) =>
       \A i \in Frames : Pinned(i) =>
          /\ bufDescTable'[i].valid = TRUE
          /\ bufDescTable'[i].file = bufDescTable[i].file
          /\ bufDescTable'[i].pageNo = bufDescTable[i].pageNo
          /\ bufDescTable'[i].pinCnt >= bufDescTable[i].pinCnt
          /\ bufPool'[i] = bufPool[i]
          /\ HTlookup(hashTable', bufDescTable[i].file, bufDescTable[i].pageNo)
               = HTlookup(hashTable, bufDescTable[i].file, bufDescTable[i].pageNo)]_vars

\* A call has just replaced a valid page while another frame, which the clock
\* sweep had passed (refbit cleared), was pinned.
C1_Witness ==
  /\ Acquiring(lastOp.op) /\ lastOp.exc = "none" /\ lastOp.evicted
  /\ \E i \in Frames : Pinned(i) /\ bufDescTable[i].refbit = FALSE

\* C2: in every reachable state the index and the descriptors are in
\* bijection: a frame is valid iff the index holds exactly one entry for its
\* (file, pageNo), which names that frame; every entry names a valid frame
\* holding that page; no two valid frames hold the same page.
C2_IndexConsistency ==
  /\ \A i \in Frames :
       bufDescTable[i].valid = TRUE <=>
         HTlookup(hashTable, bufDescTable[i].file, bufDescTable[i].pageNo)
           = {[file |-> bufDescTable[i].file, pageNo |-> bufDescTable[i].pageNo,
               frameNo |-> i]}
  /\ \A e \in hashTable :
       /\ e.frameNo \in Frames
       /\ bufDescTable[e.frameNo].valid = TRUE
       /\ bufDescTable[e.frameNo].file = e.file
       /\ bufDescTable[e.frameNo].pageNo = e.pageNo
  /\ \A i, j \in Frames :
       (i # j /\ bufDescTable[i].valid = TRUE /\ bufDescTable[j].valid = TRUE) =>
          <<bufDescTable[i].file, bufDescTable[i].pageNo>>
            # <<bufDescTable[j].file, bufDescTable[j].pageNo>>
  /\ Cardinality(hashTable) = Cardinality({i \in Frames : bufDescTable[i].valid = TRUE})

\* flushFile has ended with PagePinned after it had flushed a frame: one frame
\* is invalid again, the other still resident.
C2_Witness ==
  /\ lastOp.op = "flushFile" /\ lastOp.exc = "PagePinned"
  /\ \E i, j \in Frames : bufDescTable[i].valid = FALSE /\ bufDescTable[j].valid = TRUE
  /\ Cardinality(hashTable) = 1

\* C5: once the followed page was unpinned dirty with bytes b (pinCnt left 0)
\* and flushFile of its file returned without error, the file holds b for the
\* page, and the next readPage of the page delivers b.
C5_WriteDurability ==
  /\ dur.st = "flushed" => files[dur.file][dur.pageNo].data = dur.b
  /\ dur.st = "refetched" =>
       /\ Resident(dur.file, dur.pageNo)
       /\ bufPool[FrameOf(dur.file, dur.pageNo)].data = dur.b
       /\ files[dur.file][dur.pageNo].data = dur.b

\* The page was written with 1, unpinned dirty, flushed and fetched again.
C5_Witness ==
  /\ dur.st = "refetched" /\ dur.b = 1
  /\ lastOp.op = "readPage" /\ lastOp.exc = "none" /\ ~lastOp.hit

\* C6: readPage and allocPage end with BufferExceeded only when every frame
\* is valid and pinned at the time of the call.
C6_BufferExceededOnlyWhenAllPinned ==
  [][(Acquiring(lastOp'.op) /\ lastOp'.exc = "BufferExceeded") => AllPinned]_vars

\* C7: with every frame valid and pinned, readPage of a page that is not
\* resident ends with BufferExceeded and leaves the index, the files, the frame
\* bytes and every descriptor field but refbit as they were.
C7_Exhaustion ==
  [][(lastOp'.op = "readPage" /\ ~lastOp'.hit /\ AllPinned) =>
       /\ lastOp'.exc = "BufferExceeded"
       /\ hashTable' = hashTable
       /\ files' = files
       /\ bufPool' = bufPool
       /\ \A i \in Frames : [bufDescTable'[i] EXCEPT !.refbit = FALSE]
                              = [bufDescTable[i] EXCEPT !.refbit = FALSE]]_vars

\* Capacity 1, (A,1) held pinned, and the fetch of another page has just
\* ended with BufferExceeded.
C7_Witness ==
  /\ numBufs = 1
  /\ lastOp.op = "readPage" /\ lastOp.exc = "BufferExceeded" /\ ~lastOp.hit
  /\ bufDescTable[0].valid = TRUE /\ bufDescTable[0].pinCnt > 0
  /\ bufDescTable[0].file = "A" /\ bufDescTable[0].pageNo = 1

\* C10: after the destructor, the bytes the followed page had at its last
\* dirty unpin (pinCnt left 0, no flush since) are in its file, whatever else
\* was resident or pinned when the pool was destructed.
C10_TeardownWritesBack ==
  (alive = FALSE /\ dur.st = "armed") => files[dur.file][dur.pageNo].data = dur.b

\* ------------------------------------------------------- join properties
\* The tuples of a relation, each with its place (page, slot) in the file.
TuplesOf(file) ==
  {<<p, i>> : p \in DOMAIN files[file], i \in 1..MaxTup} \cap
  {x \in (DOMAIN files[file]) \X (1..MaxTup) : x[2] <= Len(files[file][x[1]].data)}
TupleAt(file, x) == files[file][x[1]].data[x[2]]
\* The join key and the remainder as the schemas (a, k) and (k, b) lay them out.
LeftKey(tup) == SubSeq(tup, 5, 8)
RightKey(tup) == SubSeq(tup, 1, 4)
RightRemainder(tup) == SubSeq(tup, 5, 8)
MatchingPairs ==
  {x \in TuplesOf("L") \X TuplesOf("R") :
     LeftKey(TupleAt("L", x[1])) = RightKey(TupleAt("R", x[2]))}
Returned == join.pc = "idle" /\ join.nlj.isComplete

\* C3: when NestedLoopJoinOperator::execute has returned true, the result
\* file holds as many tuples as there are pairs (L, R) of a left and a right
\* tuple with equal join keys, and numResultTuples is that number, whatever
\* the page budget (>= 2) and the number of right pages.
C3_OneResultPerMatchingPair ==
  Returned =>
     /\ Len(join.result) = Cardinality(MatchingPairs)
     /\ join.nlj.numResultTuples = Cardinality(MatchingPairs)

\* C4: every tuple in the result file is the bytes of a left tuple followed
\* by the remainder of a right tuple with the same join key.
C4_ResultIsLeftThenRemainder ==
  \A i \in 1..Len(join.result) :
     \E x \in MatchingPairs :
        join.result[i] = TupleAt("L", x[1]) \o RightRemainder(TupleAt("R", x[2]))

\* C8: OnePassJoinOperator::execute and GraceHashJoinOperator::execute never
\* return true and never mark the join complete.
C8_StubsNeverSucceed ==
  /\ join.onePass.ret # "true" /\ join.onePass.isComplete = FALSE
  /\ join.grace.ret # "true" /\ join.grace.isComplete = FALSE

\* C9: a call of NestedLoopJoinOperator::execute on a completed join returns
\* true and changes neither the pool (no pin count, reference bit, index entry,
\* frame or file changes: no readPage, unPinPage or flushFile ran), nor the
\* result file, nor numResultTuples, numUsedBufPages, numIOs.
C9_IdempotentExecute ==
  [][(join.nlj.isComplete /\ join'.calls = join.calls + 1) =>
       /\ join'.nlj.ret = "true"
       /\ join'.nlj.isComplete
       /\ join'.pc = "idle"
       /\ join'.nlj.numResultTuples = join.nlj.numResultTuples
       /\ join'.nlj.numUsedBufPages = join.nlj.numUsedBufPages
       /\ join'.nlj.numIOs = join.nlj.numIOs
       /\ join'.result = join.result
       /\ UNCHANGED <<bufDescTable, bufPool, hashTable, clockHand, files>>]_vars

\* execute was called a second time on a join that had completed with
\* results after more than one macro-pass worth of pages, and has returned.
C9_Witness ==
  /\ Returned /\ join.calls = 2 /\ join.nlj.ret = "true"
  /\ join.nlj.numResultTuples > 0 /\ join.nlj.numIOs > 2

\* ------------------------------------------------------ unPinPage, flushFile
PoolUnchanged == UNCHANGED <<bufDescTable, bufPool, hashTable, clockHand, files>>

\* C12: unPinPage of a resident page with pinCnt > 0 ends without error and
\* lowers the pinCnt of its frame by exactly one; with pinCnt = 0 it ends with
\* PageNotPinned and changes no descriptor, frame, index entry, file or the
\* clock hand; no pinCnt is ever below 0.
C12_UnpinDecrementsOrFails ==
  /\ [](\A i \in Frames : bufDescTable[i].pinCnt >= 0)
  /\ [][\A f \in Files : \A p \in PagesOf(f) : \A dirty \in BOOLEAN :
          (UnPinPage(f, p, dirty) /\ Resident(f, p)) =>
             IF bufDescTable[FrameOf(f, p)].pinCnt > 0
             THEN /\ lastOp'.exc = "none"
                  /\ bufDescTable'[FrameOf(f, p)].pinCnt
                       = bufDescTable[FrameOf(f, p)].pinCnt - 1
                  /\ \A i \in Frames \ {FrameOf(f, p)} :
                        bufDescTable'[i] = bufDescTable[i]
             ELSE /\ lastOp'.exc = "PageNotPinned"
                  /\ PoolUnchanged]_vars

\* unPinPage has just ended with PageNotPinned on a resident page whose
\* pinCnt is 0, while another frame holds a pinned page.
C12_Witness ==
  /\ lastOp.op = "unPinPage" /\ lastOp.exc = "PageNotPinned" /\ lastOp.hit
  /\ \E i, j \in Frames :
        /\ bufDescTable[i].valid = TRUE /\ bufDescTable[i].pinCnt = 0
        /\ bufDescTable[i].file = lastOp.file
        /\ bufDescTable[j].valid = TRUE /\ bufDescTable[j].pinCnt > 0

\* C13: unPinPage of a page that is not resident ends without error and
\* changes no descriptor, frame, index entry, file or the clock hand.
C13_UnpinNonResidentIsNoOp ==
  [][\A f \in Files : \A p \in PagesOf(f) : \A dirty \in BOOLEAN :
        (UnPinPage(f, p, dirty) /\ ~Resident(f, p)) =>
           /\ lastOp'.exc = "none"
           /\ PoolUnchanged]_vars

\* unPinPage has just been called for a page that is not resident (the call
\* hit no frame) after an eviction or flush had emptied or replaced a frame,
\* while the pool holds a pinned page of the same file.
C13_Witness ==
  /\ lastOp.op = "unPinPage" /\ lastOp.exc = "none" /\ ~lastOp.hit
  /\ \E i \in Frames : bufDescTable[i].valid = TRUE /\ bufDescTable[i].pinCnt > 0
                       /\ bufDescTable[i].file = lastOp.file
  /\ clockHand # numBufs - 1

\* The frames whose descriptor names the file.
OwnedBy(file) == {i \in Frames : bufDescTable[i].file = file}

\* C11: flushFile(f) ends with PagePinned exactly when some frame owned by f
\* has pinCnt # 0; otherwise it ends without error, and then no page of f is
\* resident (its frames are cleared, its index entries gone), every frame of f
\* that was dirty has its bytes in f, and the frames, index entries and pages
\* of the other files are as before.
C11_FlushFile ==
  [][\A f \in Files : FlushFile(f) =>
        /\ (lastOp'.exc = "PagePinned") <=>
              (\E i \in OwnedBy(f) : bufDescTable[i].pinCnt # 0)
        /\ (lastOp'.exc = "none") <=>
              (\A i \in OwnedBy(f) : bufDescTable[i].pinCnt = 0)
        /\ (lastOp'.exc = "none") =>
              /\ \A i \in OwnedBy(f) : bufDescTable'[i] = Clear(bufDescTable[i])
              /\ \A i \in Frames : bufDescTable'[i].file # f
              /\ \A e \in hashTable' : e.file # f
              /\ \A i \in OwnedBy(f) :
                    bufDescTable[i].dirty = TRUE =>
                       files'[f][bufDescTable[i].pageNo].data = bufPool[i].data
              /\ \A i \in Frames \ OwnedBy(f) :
                    bufDescTable'[i] = bufDescTable[i] /\ bufPool'[i] = bufPool[i]
              /\ {e \in hashTable' : e.file # f} = {e \in hashTable : e.file # f}
              /\ \A g \in Files \ {f} : files'[g] = files[g]
              /\ clockHand' = clockHand]_vars

\* flushFile has just returned without error after writing the followed
\* page's byte 1 to its file and clearing its frame (which still holds the
\* page's bytes), while a frame of the other file stays valid.
C11_Witness ==
  /\ lastOp.op = "flushFile" /\ lastOp.exc = "none"
  /\ dur.st = "flushed" /\ dur.b = 1 /\ dur.file = lastOp.file
  /\ files[dur.file][dur.pageNo].data = 1
  /\ \E i, j \in Frames :
        /\ bufDescTable[i].valid = TRUE /\ bufDescTable[i].file # lastOp.file
        /\ bufDescTable[j].valid = FALSE
        /\ bufPool[j] = [num |-> dur.pageNo, data |-> 1]

\* ------------------------------------------------------------ clock sweep
\* C14: the sweep of allocBuf ends after at most 2N+1 calls of advanceClock,
\* with a frame selected or with BufferExceeded: this holds for the sweep of
\* the last readPage or allocPage call, and for the sweep that would start in
\* the current state, whatever frames are pinned, referenced or invalid.
C14_EvictionScanTerminates ==
  /\ lastOp.advances <= 2 * numBufs + 1
  /\ (Acquiring(lastOp.op) /\ ~lastOp.hit) =>
        /\ lastOp.advances >= 1
        /\ lastOp.exc \in {"none", "BufferExceeded", "InvalidPage"}
  /\ LET a == allocBuf(PoolState) IN
        /\ a.advances \in 1..(2 * numBufs + 1)
        /\ \/ a.exc = "BufferExceeded" /\ a.frame = -1
           \/ a.exc = "none" /\ a.frame \in Frames /\ a.frame = a.clockHand

\* readPage has just ended with BufferExceeded after the longest sweep: all
\* frames were pinned and referenced, so the hand went round twice and one
\* frame further.
C14_Witness ==
  /\ numBufs = MaxBufs
  /\ lastOp.op = "readPage" /\ lastOp.exc = "BufferExceeded"
  /\ lastOp.advances = 2 * numBufs + 1
  /\ AllPinned

\* The number of advanceClock calls after which the hand first reaches frame i.
HandDistance(i) == ((i + numBufs - clockHand - 1) % numBufs) + 1

\* The pool after readPage(A,1), readPage(A,2), unPinPage(A,1,false) on a new
\* pool of two frames, with page 3 in file A.
AfterFetch1Fetch2Unpin1 ==
  /\ numBufs = 2 /\ clockHand = 1
  /\ FileHas(files, "A", 3)
  /\ bufDescTable[0] = [Set(bufDescTable[0], "A", 1) EXCEPT !.pinCnt = 0]
  /\ bufDescTable[1] = Set(bufDescTable[1], "A", 2)
  /\ hashTable = {[file |-> "A", pageNo |-> 1, frameNo |-> 0],
                  [file |-> "A", pageNo |-> 2, frameNo |-> 1]}

\* C15: second chance in clock order.  A new pool has its hand on frame N-1,
\* so the first advance lands on frame 0.  A sweep that selects frame v selects
\* it on the first encounter when v was invalid or unreferenced, and on the
\* second encounter (N advances later) when v was referenced; a valid victim
\* had pinCnt = 0; every other frame the hand reached has its reference bit
\* cleared and is not selected; the frames the hand did not reach keep their
\* bit.  A readPage hit sets the reference bit and leaves the hand.  For N=2,
\* readPage(A,1), readPage(A,2), unPinPage(A,1,false), readPage(A,3) leaves
\* frame 0 = (A,3,pinCnt 1) and frame 1 = (A,2,pinCnt 1).
C15_SecondChance ==
  /\ [](lastOp.op = "none" => (clockHand = numBufs - 1 /\ advanceClock(clockHand) = 0))
  /\ [][(Acquiring(lastOp'.op) /\ ~lastOp'.hit /\ lastOp'.exc # "BufferExceeded") =>
          LET v == clockHand' IN
          /\ lastOp'.advances =
                HandDistance(v) + (IF bufDescTable[v].valid = TRUE /\ bufDescTable[v].refbit = TRUE
                                   THEN numBufs ELSE 0)
          /\ bufDescTable[v].valid = TRUE => bufDescTable[v].pinCnt = 0
          /\ lastOp'.evicted <=> bufDescTable[v].valid = TRUE
          /\ \A i \in Frames \ {v} :
                /\ bufDescTable'[i].refbit =
                      IF HandDistance(i) <= lastOp'.advances
                      THEN FALSE ELSE bufDescTable[i].refbit
                /\ bufDescTable'[i].valid = bufDescTable[i].valid
                /\ bufDescTable'[i].pageNo = bufDescTable[i].pageNo]_vars
  /\ [][\A f \in Files : \A p \in PagesOf(f) :
          (ReadPage(f, p) /\ Resident(f, p)) =>
             /\ bufDescTable'[FrameOf(f, p)].refbit = TRUE
             /\ clockHand' = clockHand
             /\ lastOp'.advances = 0]_vars
  /\ [][(AfterFetch1Fetch2Unpin1 /\ ReadPage("A", 3)) =>
          /\ bufDescTable'[0] = Set(bufDescTable[0], "A", 3)
          /\ bufDescTable'[1] = [Set(bufDescTable[1], "A", 2) EXCEPT !.refbit = FALSE]
          /\ bufPool'[0].num = 3 /\ bufPool'[1].num = 2
          /\ clockHand' = 0]_vars

\* The end of the scenario: readPage(A,3) has just replaced (A,1) in frame 0
\* after three advances, and (A,2) is still pinned in frame 1.
C15_Witness ==
  /\ numBufs = 2 /\ clockHand = 0
  /\ lastOp.op = "readPage" /\ lastOp.file = "A" /\ lastOp.exc = "none"
  /\ lastOp.evicted /\ lastOp.advances = 3
  /\ bufDescTable[0] = Set(bufDescTable[0], "A", 3)
  /\ bufDescTable[1] = [Set(bufDescTable[1], "A", 2) EXCEPT !.refbit = FALSE]

\* ------------------------------------------------------------- eviction
\* C16: while the followed page has been unpinned dirty (with bytes rb) and
\* neither written nor disposed since, its frame holds rb and is dirty or
\* already written back as long as the page is resident, and its file holds rb
\* whenever the page is not resident: hits and clean unpins do not clear the
\* dirty bit, and eviction writes the frame back before reusing it.
C16_NoLostWriteOnEviction ==
  (alive /\ dur.reported) =>
     IF Resident(dur.file, dur.pageNo)
     THEN /\ bufPool[FrameOf(dur.file, dur.pageNo)].data = dur.rb
          /\ \/ bufDescTable[FrameOf(dur.file, dur.pageNo)].dirty = TRUE
             \/ files[dur.file][dur.pageNo].data = dur.rb
     ELSE /\ FileHas(files, dur.file, dur.pageNo)
          /\ files[dur.file][dur.pageNo].data = dur.rb

\* A readPage or allocPage has just evicted a page; the followed page was
\* unpinned dirty with byte 1, is no longer resident, and its file holds 1
\* without any flushFile having written it.
C16_Witness ==
  /\ alive /\ dur.reported /\ dur.rb = 1
  /\ Acquiring(lastOp.op) /\ lastOp.evicted /\ lastOp.exc = "none"
  /\ ~Resident(dur.file, dur.pageNo)
  /\ files[dur.file][dur.pageNo].data = 1
  /\ dur.st = "armed"
  /\ \A i \in Frames : bufDescTable[i].valid = TRUE

\* ---------------------------------------------------------- disposePage
\* C17: after disposePage(f,p) the file f holds no page p, and no other page
\* of any file has changed (nothing is written back).  If p was resident, its
\* frame is cleared (invalid, pinCnt 0, dirty false) and its index entry
\* removed, whatever its pinCnt and dirty bit were; every other descriptor and
\* index entry, the frame contents and the clock hand are as before.
C17_DisposePage ==
  [][\A f \in Files : \A p \in PagesOf(f) :
        DisposePage(f, p) =>
           /\ ~FileHas(files', f, p)
           /\ \A g \in Files : \A q \in PagesOf(g) :
                 <<g, q>> # <<f, p>> => files'[g][q] = files[g][q]
           /\ IF Resident(f, p)
              THEN /\ lastOp'.exc = "none"
                   /\ bufDescTable'[FrameOf(f, p)] = Clear(bufDescTable[FrameOf(f, p)])
                   /\ \A i \in Frames \ {FrameOf(f, p)} :
                         bufDescTable'[i] = bufDescTable[i]
                   /\ hashTable' = hashTable \ HTlookup(hashTable, f, p)
              ELSE /\ bufDescTable' = bufDescTable
                   /\ hashTable' = hashTable
           /\ bufPool' = bufPool
           /\ clockHand' = clockHand]_vars

\* disposePage has just dropped the followed page, which a caller had written
\* with 1, from its frame: the file no longer holds the page, the cleared
\* frame still holds its bytes, and the other frame holds a pinned page.
C17_Witness ==
  /\ lastOp.op = "disposePage" /\ lastOp.hit /\ lastOp.exc = "none"
  /\ lastOp.file = dur.file /\ ~FileHas(files, dur.file, dur.pageNo)
  /\ \E i, j \in Frames :
        /\ bufDescTable[i].valid = FALSE
        /\ bufPool[i] = [num |-> dur.pageNo, data |-> 1]
        /\ bufDescTable[j].valid = TRUE /\ bufDescTable[j].pinCnt > 0

\* ------------------------------------------------- join: passes and pins
InExecute == join.pc \in {"build", "probe", "endpass"}

\* The pages of the relations (the files of the join hold no deleted page).
RightPages == Cardinality({p \in DOMAIN files["R"] : files["R"][p].live})
LeftPages == Cardinality({p \in DOMAIN files["L"] : files["L"][p].live})

\* C18: execute terminates for every budget >= 1.  Every macro-pass it ends
\* has read at least one right page that no earlier pass had read, so there
\* are at most as many passes as right pages: while execute runs it has read
\* no more than every right page once and every left page once per pass, and
\* when it returns, every right page has been read exactly once.
C18_ExecuteTerminates ==
  /\ [][(join.pc = "endpass" /\ join'.pc \in {"build", "idle"}) =>
           join.read_page_num >= 1]_vars
  /\ [](InExecute => join.nlj.numIOs <= RightPages + RightPages * LeftPages)
  /\ [](Returned =>
          /\ Len(join.usedPage) = RightPages
          /\ \A p \in DOMAIN files["R"] : InSeq(p, join.usedPage))

\* The pins held on the pages of a file in pool s: the sum of the pinCnt of
\* its frames.
RECURSIVE PinsFrom(_, _, _)
PinsFrom(s, file, i) ==
  IF i >= numBufs THEN 0
  ELSE (IF s.bufDescTable[i].valid = TRUE /\ s.bufDescTable[i].file = file
        THEN s.bufDescTable[i].pinCnt ELSE 0) + PinsFrom(s, file, i + 1)
PinsOn(s, file) == PinsFrom(s, file, 0)
BudgetForRight == IF join.M >= 1 THEN join.M - 1 ELSE 0

\* C19: while execute runs and has not failed, the join holds one pin on
\* each right page read in this macro-pass, at most numAvailableBufPages-1 of
\* them, and no other pin on the right file; between two iterations of the
\* probe loop it holds no pin on a left page, and inside an iteration exactly
\* one (the page is unpinned before the next is fetched); at the end of a
\* pass every right page is unpinned before flushFile, which therefore never
\* ends with PagePinned; when execute has returned no left or right page is
\* pinned.
C19_PinDiscipline ==
  /\ join.exc # "PagePinned"
  /\ InExecute =>
        /\ PinsOn(PoolState, "R") = Len(join.already_in_buf)
        /\ \A i \in Frames :
              (bufDescTable[i].valid = TRUE /\ bufDescTable[i].file = "R") =>
                 /\ bufDescTable[i].pinCnt <= 1
                 /\ bufDescTable[i].pinCnt = 1 <=>
                       InSeq(bufDescTable[i].pageNo, join.already_in_buf)
        /\ Len(join.already_in_buf) <= BudgetForRight
        /\ PinsOn(PoolState, "L") = 0
  /\ (join.pc = "probe" /\ FileHas(files, "L", join.iter)) =>
        LET s == readPage(PoolState, "L", join.iter) IN
           s.exc = "none" =>
              /\ PinsOn(s, "L") = 1
              /\ PinsOn(s, "R") <= BudgetForRight
              /\ PinsOn(unPinPage(s, "L", join.iter, FALSE), "L") = 0
  /\ join.pc = "endpass" =>
        LET u == unpinAll(PoolState, join.already_in_buf, 1) IN
           /\ u.exc = "none"
           /\ PinsOn(u, "R") = 0
           /\ flushFile(u, "R").exc = "none"
  /\ Returned => (PinsOn(PoolState, "L") = 0 /\ PinsOn(PoolState, "R") = 0)

\* In the middle of the probe loop of a pass with budget 3: two right pages
\* are pinned, the first left page has been fetched, probed and unpinned, the
\* second is about to be fetched.
C19_Witness ==
  /\ join.pc = "probe" /\ join.iter = 2 /\ join.M = 3
  /\ FileHas(files, "L", 2)
  /\ PinsOn(PoolState, "R") = 2 /\ PinsOn(PoolState, "L") = 0
  /\ Resident("L", 1)
  /\ join.nlj.numIOs = 3

\* ------------------------------------------------------- join columns
RECURSIVE NamesOf(_, _)
NamesOf(attrs, i) ==
  IF i > Len(attrs) THEN << >> ELSE <<attrs[i].name>> \o NamesOf(attrs, i + 1)

\* C20: the join columns execute works with are the attributes of
\* getCommonAttributes(leftTableSchema, rightTableSchema), in right-schema
\* order: an attribute whose name is in both schemas with different types is
\* not among them and is a right attribute of the result schema.
C20_JoinColumnsAreCommonAttributes ==
  join.pc = "sameName" =>
     /\ join.sameName = NamesOf(getCommonAttributes(join.left, join.right), 1)
     /\ \A i \in 1..Len(join.right) :
           (\E j \in 1..Len(join.left) :
               /\ join.left[j].name = join.right[i].name
               /\ join.left[j].type # join.right[i].type) =>
              /\ ~InSeq(join.right[i].name, join.sameName)
              /\ InSeq(join.right[i],
                       SubSeq(join.resultTableSchema, Len(join.left) + 1,
                              Len(join.resultTableSchema)))

\* ------------------------------------------------------- allocPage
\* The pages a call of allocPage on file added to the file.
NewPages(file) ==
  {p \in PagesOf(file) : FileHas(files', file, p) /\ ~FileHas(files, file, p)}

\* C22: allocPage is all-or-nothing with respect to the file: every page a
\* call of allocPage(file) adds to the file is, when the call ends, resident
\* in a frame that holds it with pinCnt = 1, and the call ended without an
\* exception; a call that ends with BufferExceeded adds no page to the file.
C22_AllocPageAllOrNothing ==
  [][\A file \in Files :
        AllocPage(file) =>
           /\ lastOp'.exc = "BufferExceeded" => NewPages(file) = {}
           /\ \A p \in NewPages(file) :
                 /\ lastOp'.exc = "none"
                 /\ HThas(hashTable', file, p)
                 /\ LET d == bufDescTable'[HTframe(hashTable', file, p)] IN
                       /\ d.valid = TRUE /\ d.file = file /\ d.pageNo = p
                       /\ d.pinCnt = 1
                 /\ bufPool'[HTframe(hashTable', file, p)].num = p]_vars

\* ------------------------------------------------------- handle_tuple
\* The bytes the attribute attr takes in tup from the 0-based offset off, as
\* printTable walks a tuple (lines 41-73): 4 for INT, n aligned to 4 for
\* CHAR(n), 1 + L aligned to 4 for VARCHAR with L the value of the byte at off.
AttrSpan(attr, tup, off) ==
  IF attr.type = "INT" THEN 4
  ELSE IF attr.type = "CHAR" THEN attr.size + Align(attr.size)
  ELSE 1 + tup[off + 1] + Align(1 + tup[off + 1])
\* The offset of the attribute at position j (1-based) of schema in tup.
RECURSIVE AttrOffset(_, _, _)
AttrOffset(schema, tup, j) ==
  IF j = 1 THEN 0
  ELSE LET off == AttrOffset(schema, tup, j - 1)
       IN off + AttrSpan(schema[j - 1], tup, off)
\* The bytes of the value of attr at off: the span without length byte and
\* alignment.
AttrBytes(attr, tup, off) ==
  IF attr.type = "INT" THEN SubSeq(tup, off + 1, off + 4)
  ELSE IF attr.type = "CHAR" THEN SubSeq(tup, off + 1, off + attr.size)
  ELSE SubSeq(tup, off + 2, off + 1 + tup[off + 1])
\* The key: the bytes of the common attributes, in the order of the list.
RECURSIVE KeyOf(_, _, _, _)
KeyOf(sameName, tup, schema, i) ==
  IF i > Len(sameName) THEN << >>
  ELSE LET j == getAttrNum(schema, sameName[i]) + 1
       IN AttrBytes(schema[j], tup, AttrOffset(schema, tup, j))
             \o KeyOf(sameName, tup, schema, i + 1)
\* The remainder: the spans of the attributes that are not common, in order.
RECURSIVE RemainderOf(_, _, _, _)
RemainderOf(sameName, tup, schema, j) ==
  IF j > Len(schema) THEN << >>
  ELSE LET off == AttrOffset(schema, tup, j)
       IN (IF InSeq(schema[j].name, sameName) THEN << >>
           ELSE SubSeq(tup, off + 1, off + AttrSpan(schema[j], tup, off)))
             \o RemainderOf(sameName, tup, schema, j + 1)

\* C21: for every schema over INT, CHAR(n), VARCHAR(n), every well-formed
\* tuple and every list of common attribute names, handle_tuple ends without
\* an exception, the key it built is the bytes of the common attributes, each
\* taken at its offset in the tuple (the sum of the spans before it), and the
\* remainder it built is the tuple without the spans of the common
\* attributes, all other bytes in order; also with several common attributes
\* and with a list whose order differs from the order of the schema.
C21_HandleTupleExtractsKeyAndRemainder ==
  join.pc = "handled" =>
     /\ join.err = "none"
     /\ join.hashString = KeyOf(join.sameName, join.tup, join.schema, 1)
     /\ join.last = RemainderOf(join.sameName, join.tup, join.schema, 1)

====
